---- MODULE Spec2Model ----
(***************************************************************************)
(* ClusterQueueReconciler of pkg/controller/core/clusterqueue_controller.go *)
(* as a state machine: the event predicates Create / Update / Delete with   *)
(* the reference synchronisation updateReferences, the status Reconcile,    *)
(* and the channel that brings workload events to it.                       *)
(*                                                                          *)
(* The object store (client), the admission cache, the queue manager and    *)
(* the work queue are collaborators.  A predicate and a Reconcile run on    *)
(* their own goroutines: one action is one call of a collaborator, and the  *)
(* calls of different invocations interleave.  The failures of the calls    *)
(* are inputs of the actions.                                               *)
(***************************************************************************)
EXTENDS Naturals, FiniteSets, Sequences, TLC

\* ------------------------------------------------------------- input sets

\* Names of the ClusterQueue objects of the model.
Queues == {"q1", "q2"}

\* Names of ResourceFlavors a spec may list.  "f1" exists from the start,
\* "f2" is created later (or never): a spec can list a flavor that does not exist.
FlavorNames == {"f1", "f2"}

\* A flavor of a resource: its name and its quota.
Flavor(n, quota) == [name |-> n, quota |-> quota]

\* A resource of Spec.Resources: its name and its flavors in order.
Resource(n, flavors) == [name |-> n, flavors |-> flavors]

\* Spec.Resources: a nil slice, or a slice of resources (empty or not).
Resources(res) == [isNil |-> FALSE, res |-> res]

\* Spec.Resources of kueue.ClusterQueueSpec{} (Create's old object, Delete's new
\* one, and a stored object without resources): the nil slice.
EmptySpec == [isNil |-> TRUE, res |-> << >>]

\* The empty slice that is not nil.
NoResources == Resources(<< >>)

\* One resource with the flavor f1 / the flavor f2 / both.
OnlyF1 == Resources(<< Resource("cpu", << Flavor("f1", 1) >>) >>)

OnlyF2 == Resources(<< Resource("cpu", << Flavor("f2", 1) >>) >>)

BothInOne == Resources(<< Resource("cpu", << Flavor("f1", 1), Flavor("f2", 1) >>) >>)

\* The same two flavors, each in a resource of its own.
BothInTwo ==
    Resources(<< Resource("cpu", << Flavor("f1", 1) >>),
                 Resource("memory", << Flavor("f2", 1) >>) >>)

\* OnlyF1 with another quota, and with another resource name.
OnlyF1Quota == Resources(<< Resource("cpu", << Flavor("f1", 2) >>) >>)

OnlyF1Memory == Resources(<< Resource("memory", << Flavor("f1", 1) >>) >>)

\* The values of Spec.Resources of the model.
SpecChoices ==
    { EmptySpec, NoResources, OnlyF1, OnlyF2, BothInOne, BothInTwo,
      OnlyF1Quota, OnlyF1Memory }

\* Largest number of admitted / pending workloads the cache and queue manager report.
MaxWorkloads == 1

\* Largest quantity of a used resource the cache reports.
MaxQuantity == 1

ResourceNames == {"cpu"}

\* kueue.UsedResources values: a nil map, or a map from resource name to quantity
\* (a set of <<name, quantity>> pairs; the empty set is the empty, non-nil map).
UsedResourcesValues ==
    { [isNil |-> TRUE, kv |-> {}], [isNil |-> FALSE, kv |-> {}] }
        \cup { [isNil |-> FALSE, kv |-> {<<r, n>>}] : r \in ResourceNames, n \in 1..MaxQuantity }

\* kueue.ClusterQueueStatus{}: the status of an object that was never written.
ZeroStatus ==
    [UsedResources |-> [isNil |-> TRUE, kv |-> {}],
     AdmittedWorkloads |-> 0,
     PendingWorkloads |-> 0]

\* ------------------------------------------------------------------ state

VARIABLES
    cqObj,      \* object store: ClusterQueue name -> [spec, status], for the existing ones
    rf,         \* object store: ResourceFlavor name -> ClusterQueues (the referencing set)
    cache,      \* cache.Cache: ClusterQueue name -> [usage, workloads], for the known ones
    qManager,   \* queue.Manager: ClusterQueue name -> pending count, for the known ones
    last,       \* the most recent invocation that returned, with its calls and return
                \* value, or the most recent change of the queues, the cache or the
                \* queue manager if that came later
    proc,       \* the predicates that are running: ClusterQueue name -> position,
                \* listed flavors and the calls made so far
    rec,        \* the Reconciles that are running: ClusterQueue name -> position and
                \* the values read so far
    wlUpdateCh, \* the buffer of the channel wlUpdateCh: the events sent and not received
    sendq,      \* the workloads whose NotifyWorkloadUpdate is blocked on the channel
    pushed,     \* the workloads whose NotifyWorkloadUpdate has returned, in order
    held,       \* the events the channel source has received and not yet handed over
    delivered,  \* the workloads whose event was given to the handler, in order
    waiting,    \* workqueue: requests added with AddAfter whose delay has not elapsed
    workqueue,  \* workqueue: requests ready for a Reconcile
    nNotify     \* how many times NotifyWorkloadUpdate has been called

\* The object store, the cache and the queue manager.
storeVars == <<cqObj, rf, cache, qManager>>

\* The channel of workload events.
chanVars == <<wlUpdateCh, sendq, pushed, held, delivered, nNotify>>

\* The reconcile requests.
queueVars == <<waiting, workqueue>>

vars == <<storeVars, last, proc, rec, chanVars, queueVars>>

\* The operation before an invocation, when there was none.
NoPrev == [op |-> "none", q |-> "none", ret |-> TRUE]

\* The record of an invocation that made no call at all.
\*   old, new        the Spec.Resources of the event's old and new object
\*   prev            the operation `last` held when the predicate began, or when
\*                   the Reconcile returned
\*   listCalls       how many times client.List was called; listErr: one failed
\*   syncErr         updateReferences returned an error
\*   written         the flavors client.Update was called for; failed: with an error;
\*                   changed: those the store holds with other queues than before
\*   missing         the flavors that were not listed
\*   called          which of cache and qManager were called; callErrs: with an error
\*   getRes          the answer of client.Get
\*   statusWrites    how many times client.Status().Update was called; writeRes:
\*                   its answer; statusWritten: the status sent
\*   fresh           the cache and the queue manager still hold, at the return,
\*                   what Reconcile read
\*   req, added      the request a workload event asked for; how many were added
NoCall ==
    [op |-> "none", q |-> "none", ret |-> TRUE,
     old |-> EmptySpec, new |-> EmptySpec, prev |-> NoPrev,
     listCalls |-> 0, listErr |-> FALSE, syncErr |-> FALSE,
     written |-> {}, failed |-> {}, changed |-> {}, missing |-> {},
     called |-> {}, callErrs |-> {},
     getRes |-> "none", statusWrites |-> 0, writeRes |-> "none",
     statusWritten |-> ZeroStatus, fresh |-> TRUE,
     req |-> "none", added |-> 0]

\* The record of a step that is no invocation's return.
Change(op, cq) == [NoCall EXCEPT !.op = op, !.q = cq]

Restrict(f, S) == [x \in S |-> f[x]]

Range(s) == { s[i] : i \in DOMAIN s }

\* The sequence without the element `x`.
Without(s, x) == SelectSeq(s, LAMBDA e : e # x)

\* ------------------------------------------- reference synchronisation

\* The keys of oldFlavors / newFlavors: every flavor name of every resource.
flavorKeys(spec) ==
    UNION { { spec.res[i].flavors[j].name : j \in DOMAIN spec.res[i].flavors }
            : i \in DOMAIN spec.res }

\* needRemove left empty: the flavors the new spec dropped are never visited.
needRemove_Empty(oldSpec, newSpec) == {}

needRemove(oldSpec, newSpec) == flavorKeys(oldSpec) \ flavorKeys(newSpec)

needAdd(oldSpec, newSpec) == flavorKeys(newSpec) \ flavorKeys(oldSpec)

\* The loop ranging over every listed flavor instead of `objs`.
rfCache_AllListed(store, objs) ==
    [found |-> DOMAIN store, missing |-> objs \ DOMAIN store]

\* `for k := range objs { if rf, ok := rfCache[k]; ok {...} else {...} }` after a
\* List that answered `store`: the flavors of `objs` that were listed, which the
\* loop changes and persists, and those that were not, which it logs.
rfCache(store, objs) ==
    [found |-> objs \cap DOMAIN store, missing |-> objs \ DOMAIN store]

\* rf.ClusterQueues of a listed flavor after the loop body changed it.
withReference(clusterQueues, cq, deletion) ==
    IF deletion THEN clusterQueues \ {cq} ELSE clusterQueues \cup {cq}

\* The loop leaving at the first client.Update that fails.
remaining_AbortOnError(todo, f, ok) == IF ok THEN todo \ {f} ELSE {}

\* The flavors the loop still has to visit after client.Update for `f` answered:
\* an error is logged and the loop goes on.
remaining(todo, f, ok) == todo \ {f}

\* What the object store does with an Update of a flavor: the write is applied
\* unless the call fails, or the object sent was read before another write of the
\* flavor and the store refuses such a write.
\*   fails          the call fails whatever the object
\*   staleAccepted  the store accepts an object that was read before another write
updateApplied(listedValue, storedValue, fails, staleAccepted) ==
    /\ ~fails
    /\ listedValue = storedValue \/ staleAccepted

\* ------------------------------------------------ cache and queue manager

\* The entry cache.AddClusterQueue creates: nothing admitted, nothing used.
NewCacheEntry == [usage |-> [isNil |-> FALSE, kv |-> {}], workloads |-> 0]

\* cache.AddClusterQueue: fails when the call is made to fail or the queue is known.
cacheAdd(c, cq, fails) ==
    IF fails \/ cq \in DOMAIN c
    THEN [err |-> TRUE, cache |-> c]
    ELSE [err |-> FALSE, cache |-> c @@ (cq :> NewCacheEntry)]

\* cache.UpdateClusterQueue: fails when made to fail or the queue is not known.
cacheUpdate(c, cq, fails) ==
    [err |-> fails \/ cq \notin DOMAIN c, cache |-> c]

\* cache.DeleteClusterQueue.
cacheDelete(c, cq) == Restrict(c, DOMAIN c \ {cq})

\* qManager.AddClusterQueue.
qManagerAdd(m, cq, fails) ==
    IF fails \/ cq \in DOMAIN m
    THEN [err |-> TRUE, qManager |-> m]
    ELSE [err |-> FALSE, qManager |-> m @@ (cq :> 0)]

\* qManager.UpdateClusterQueue.
qManagerUpdate(m, cq, fails) ==
    [err |-> fails \/ cq \notin DOMAIN m, qManager |-> m]

\* qManager.DeleteClusterQueue.
qManagerDelete(m, cq) == Restrict(m, DOMAIN m \ {cq})

\* qManager.Pending: zero for a queue the manager does not know.
Pending(m, cq) == IF cq \in DOMAIN m THEN m[cq] ELSE 0

\* cache.Usage: an error for a queue the cache does not know.
Usage(c, cq) ==
    IF cq \notin DOMAIN c
    THEN [err |-> TRUE, usage |-> ZeroStatus.UsedResources, workloads |-> 0]
    ELSE [err |-> FALSE, usage |-> c[cq].usage, workloads |-> c[cq].workloads]

\* ----------------------------------------------- decisions of the predicates

\* The comparison of the flavors named only, whatever resource names them and
\* whatever their quota.
DeepEqual_FlavorsOnly(a, b) == flavorKeys(a) = flavorKeys(b)

\* reflect.DeepEqual on two Spec.Resources: both nil, or both not nil with the
\* same resources, names, flavors and quotas in the same order.
DeepEqual(a, b) == a = b

\* Create returning false when the cache's AddClusterQueue fails.
afterCacheCall_ReturnOnError(op, err) ==
    IF err /\ op = "Create" THEN "return" ELSE "qManager"

\* Where a predicate goes after its call of the cache: to the call of the queue
\* manager, an error being logged only.
afterCacheCall(op, err) == "qManager"

\* The generic predicate filtering every event out.
genericResult_Filter(obj) == FALSE

\* What Generic(e) returns, for any object: true.
genericResult(obj) == TRUE

\* ------------------------------------------------- decisions of Reconcile

\* Status going on after an error of cache.Usage, with what it answered.
afterUsage_IgnoreError(err) == "pending"

\* `if err != nil { ...; return kueue.ClusterQueueStatus{}, err }` in Status, and
\* the same in Reconcile: an error of cache.Usage is returned.
afterUsage(err) == IF err THEN "return" ELSE "pending"

\* Every answer but success is an error, not-found included.
IgnoreNotFound_Strict(res) == res = "ok"

\* client.IgnoreNotFound(err) = nil: the answer is success or not-found.
IgnoreNotFound(res) == res \in {"ok", "notfound"}

\* The statuses compared field by field as written, a nil map differing from an
\* empty one (reflect.DeepEqual).
SemanticDeepEqual_Strict(a, b) == a = b

\* equality.Semantic.DeepEqual on two statuses: a nil and an empty map are equal,
\* maps are compared by content, the counts by value.
SemanticDeepEqual(a, b) ==
    /\ a.UsedResources.kv = b.UsedResources.kv
    /\ a.AdmittedWorkloads = b.AdmittedWorkloads
    /\ a.PendingWorkloads = b.PendingWorkloads

\* The status Status(cq) returns from what cache.Usage and qManager.Pending answered.
Status(usage, workloads, pending) ==
    [UsedResources |-> usage, AdmittedWorkloads |-> workloads, PendingWorkloads |-> pending]

\* The object sent without the computed status assigned to it.
statusUpdate_Stale(obj, status) == obj

\* cqObj.Status = status; client.Status().Update(cqObj): the object sent.
statusUpdate(obj, status) == [obj EXCEPT !.status = status]

\* ------------------------------------------------------- workload events

\* const wlUpdateChBuffer: the capacity of the channel wlUpdateCh.
wlUpdateChBuffer == 10

\* The local queues the queue manager knows, each with its ClusterQueue.
LocalQueues == [lq \in {"lq1"} |-> "q1"]

\* The workloads of the events: `admission` is Spec.Admission.ClusterQueue, "none"
\* for a nil Spec.Admission; `queue` is the local queue the workload was sent to.
WlObjects ==
    { [name |-> "w1", admission |-> "q1",   queue |-> "lq1"],
      [name |-> "w2", admission |-> "none", queue |-> "lq1"],
      [name |-> "w3", admission |-> "none", queue |-> "lq0"],
      [name |-> "w4", admission |-> "q2",   queue |-> "lq1"] }

\* qManager.ClusterQueueForWorkload(w): the ClusterQueue of the workload's local
\* queue, not ok when the queue manager does not know the local queue.
ClusterQueueForWorkload(w) ==
    IF w.queue \in DOMAIN LocalQueues
    THEN [name |-> LocalQueues[w.queue], ok |-> TRUE]
    ELSE [name |-> "", ok |-> FALSE]

\* The request named after the workload, not after its ClusterQueue.
requestForWorkloadClusterQueue_ByWorkload(w) ==
    [nil |-> FALSE, name |-> w.name, called |-> {}]

\* The queue manager asked first, the admission used only when it knows nothing.
requestForWorkloadClusterQueue_AskFirst(w) ==
    LET r == ClusterQueueForWorkload(w)
    IN  IF r.ok
        THEN [nil |-> FALSE, name |-> r.name, called |-> {"qManager"}]
        ELSE IF w.admission # "none"
        THEN [nil |-> FALSE, name |-> w.admission, called |-> {"qManager"}]
        ELSE [nil |-> TRUE, name |-> "", called |-> {"qManager"}]

\* No request for a workload that is admitted.
requestForWorkloadClusterQueue_DropAdmitted(w) ==
    LET r == ClusterQueueForWorkload(w)
    IN  IF w.admission # "none" \/ ~r.ok
        THEN [nil |-> TRUE, name |-> "", called |-> {}]
        ELSE [nil |-> FALSE, name |-> r.name, called |-> {"qManager"}]

\* requestForWorkloadClusterQueue(w): the request for the ClusterQueue of the
\* admission if there is one, else for the one the queue manager answers, nil when
\* it answers none.
requestForWorkloadClusterQueue(w) ==
    IF w.admission # "none"
    THEN [nil |-> FALSE, name |-> w.admission, called |-> {}]
    ELSE LET r == ClusterQueueForWorkload(w)
         IN  IF ~r.ok
             THEN [nil |-> TRUE, name |-> "", called |-> {"qManager"}]
             ELSE [nil |-> FALSE, name |-> r.name, called |-> {"qManager"}]

\* q.AddAfter(req, constants.UpdatesBatchPeriod): the request waits for the batch
\* period, unless the same request is waiting already.
AddAfter(wt, name) == IF name \in Range(wt) THEN wt ELSE Append(wt, name)

\* q.Add(req): the request is queued, unless the same request is queued already.
Add(wq, name) == IF name \in Range(wq) THEN wq ELSE Append(wq, name)

\* cqWorkloadHandler.Generic(e, q) for the workload `w`: the requests waiting
\* afterwards and the invocation record.
workloadGeneric(wt, w) ==
    LET req == requestForWorkloadClusterQueue(w)
        wt2 == IF req.nil THEN wt ELSE AddAfter(wt, req.name)
    IN  [waiting |-> wt2,
         call |-> [NoCall EXCEPT !.op = "WorkloadGeneric", !.q = w.name,
                                 !.called = req.called,
                                 !.req = IF req.nil THEN "none" ELSE req.name,
                                 !.added = Len(wt2) - Len(wt)]]

\* The send that returns at once when the buffer is full, the event lost.
chSend_DropWhenFull(ch, sq, w) ==
    IF Len(ch) < wlUpdateChBuffer
    THEN [ch |-> Append(ch, w), sendq |-> sq, returned |-> TRUE]
    ELSE [ch |-> ch, sendq |-> sq, returned |-> TRUE]

\* r.wlUpdateCh <- event: buffered when there is room, else the sender blocks.
chSend(ch, sq, w) ==
    IF Len(ch) < wlUpdateChBuffer /\ sq = << >>
    THEN [ch |-> Append(ch, w), sendq |-> sq, returned |-> TRUE]
    ELSE [ch |-> ch, sendq |-> Append(sq, w), returned |-> FALSE]

\* ------------------------------------------------------- event predicates

\* A predicate that is running: where it is, the flavors listed that its loop has
\* still to visit, the listed objects, and the record of its calls.
Running(pc, todo, snap, call) ==
    [pc |-> pc, todo |-> todo, snap |-> snap, call |-> call]

\* A predicate that returned true: the event goes on to the handler that queues
\* the request.
Passing == Running("enqueue", {}, << >>, NoCall)

\* The record of an invocation that begins now.
Begin(op, cq, old, new) ==
    [NoCall EXCEPT !.op = op, !.q = cq, !.old = old, !.new = new,
                   !.prev = [op |-> last.op, q |-> last.q, ret |-> last.ret]]

\* Create(e) is called for the ClusterQueue `cq` with Spec.Resources `spec`: the
\* object was just created in the store, or it is a stored object whose Create event
\* is delivered again (the controller restarted).  updateReferences computes
\* needRemove and needAdd from an empty old object; the next step is the first List.
Create(cq, spec) ==
    /\ cq \notin DOMAIN proc
    /\ cq \in DOMAIN cqObj => cqObj[cq].spec = spec
    /\ cqObj' = IF cq \in DOMAIN cqObj THEN cqObj
                ELSE cqObj @@ (cq :> [spec |-> spec, status |-> ZeroStatus])
    /\ proc' = proc @@ (cq :> Running("list1", {}, << >>,
                                      Begin("Create", cq, EmptySpec, spec)))
    /\ last' = Change("CreateEvent", cq)
    /\ UNCHANGED <<rf, cache, qManager, rec, chanVars, queueVars>>

\* Delete(e) is called for the ClusterQueue `cq`, which the store no longer holds:
\* updateReferences is called with the deleted object as the old one and a copy
\* with an empty spec as the new one.
Delete(cq) ==
    /\ cq \notin DOMAIN proc
    /\ cq \in DOMAIN cqObj
    /\ cqObj' = Restrict(cqObj, DOMAIN cqObj \ {cq})
    /\ proc' = proc @@ (cq :> Running("list1", {}, << >>,
                                      Begin("Delete", cq, cqObj[cq].spec, EmptySpec)))
    /\ last' = Change("DeleteEvent", cq)
    /\ UNCHANGED <<rf, cache, qManager, rec, chanVars, queueVars>>

\* Update(e) is called for the ClusterQueue `cq`: ObjectOld is the object the store
\* held, ObjectNew carries Spec.Resources `spec` (the same when only the status or
\* nothing changed).  updateReferences is called when reflect.DeepEqual finds the
\* two Spec.Resources different; otherwise the next call is the cache's.
Update(cq, spec) ==
    /\ cq \notin DOMAIN proc
    /\ cq \in DOMAIN cqObj
    /\ cqObj' = [cqObj EXCEPT ![cq].spec = spec]
    /\ proc' = proc @@ (cq :> Running(IF DeepEqual(cqObj[cq].spec, spec)
                                      THEN "cache" ELSE "list1",
                                      {}, << >>,
                                      Begin("Update", cq, cqObj[cq].spec, spec)))
    /\ last' = Change("UpdateEvent", cq)
    /\ UNCHANGED <<rf, cache, qManager, rec, chanVars, queueVars>>

\* client.List of updateResourceFlavorReferences, called by the predicate of `cq`:
\* the first call is the one for needRemove, the second the one for needAdd.
\*   fails   List answers an error: updateReferences returns it, the predicate logs
\*           it and returns false
\* Otherwise the flavors of `objs` that were not listed are logged, and the loop
\* has the listed ones to visit, with the objects List answered.
clientList(cq, fails) ==
    /\ cq \in DOMAIN proc
    /\ proc[cq].pc \in {"list1", "list2"}
    /\ LET p        == proc[cq]
           deletion == p.pc = "list1"
           objs     == IF deletion THEN needRemove(p.call.old, p.call.new)
                       ELSE needAdd(p.call.old, p.call.new)
           l        == rfCache(rf, objs)
           call     == [p.call EXCEPT !.listCalls = @ + 1]
       IN  IF fails
           THEN /\ last' = [call EXCEPT !.listErr = TRUE, !.syncErr = TRUE,
                                        !.ret = FALSE]
                /\ proc' = Restrict(proc, DOMAIN proc \ {cq})
           ELSE /\ proc' = [proc EXCEPT ![cq] =
                              Running(IF l.found # {}
                                      THEN (IF deletion THEN "remove" ELSE "add")
                                      ELSE (IF deletion THEN "list2" ELSE "cache"),
                                      l.found,
                                      Restrict(rf, l.found \cap DOMAIN rf),
                                      [call EXCEPT !.missing = @ \cup l.missing])]
                /\ last' = last
    /\ UNCHANGED <<cqObj, rf, cache, qManager, rec, chanVars, queueVars>>

\* One turn of the loop of updateResourceFlavorReferences in the predicate of `cq`:
\* the name of `cq` is deleted from, or added to, the listed object of the flavor
\* `f`, and client.Update is called with it.  An error is logged; the loop goes on.
\*   fails          client.Update fails whatever the object
\*   staleAccepted  the store accepts the object although the flavor was written
\*                  since it was listed (otherwise it answers a conflict)
clientUpdate(cq, f, fails, staleAccepted) ==
    /\ cq \in DOMAIN proc
    /\ proc[cq].pc \in {"remove", "add"}
    /\ f \in proc[cq].todo
    /\ LET p    == proc[cq]
           obj  == withReference(p.snap[f], cq, p.pc = "remove")
           ok   == updateApplied(p.snap[f], rf[f], fails, staleAccepted)
           todo == remaining(p.todo, f, ok)
           call == [p.call EXCEPT !.written = @ \cup {f},
                                  !.failed = IF ok THEN @ ELSE @ \cup {f},
                                  !.changed = IF ok /\ obj # rf[f]
                                              THEN @ \cup {f} ELSE @]
       IN  /\ rf' = IF ok THEN [rf EXCEPT ![f] = obj] ELSE rf
           /\ proc' = [proc EXCEPT ![cq] =
                         Running(IF todo # {} THEN p.pc
                                 ELSE IF p.pc = "remove" THEN "list2" ELSE "cache",
                                 todo, p.snap, call)]
    /\ UNCHANGED <<cqObj, cache, qManager, last, rec, chanVars, queueVars>>

\* The predicate of `cq` calls the cache: AddClusterQueue in Create,
\* UpdateClusterQueue in Update, DeleteClusterQueue in Delete.  An error is logged.
\*   fails   the call fails
cacheCall(cq, fails) ==
    /\ cq \in DOMAIN proc
    /\ proc[cq].pc = "cache"
    /\ LET p    == proc[cq]
           r    == IF p.call.op = "Create" THEN cacheAdd(cache, cq, fails)
                   ELSE IF p.call.op = "Update" THEN cacheUpdate(cache, cq, fails)
                   ELSE [err |-> FALSE, cache |-> cacheDelete(cache, cq)]
           call == [p.call EXCEPT !.called = @ \cup {"cache"},
                                  !.callErrs = IF r.err THEN @ \cup {"cache"} ELSE @]
       IN  /\ cache' = r.cache
           /\ IF afterCacheCall(p.call.op, r.err) = "return"
              THEN /\ last' = [call EXCEPT !.ret = FALSE]
                   /\ proc' = Restrict(proc, DOMAIN proc \ {cq})
              ELSE /\ last' = Change("cacheCall", cq)
                   /\ proc' = [proc EXCEPT ![cq] = Running("qManager", {}, << >>, call)]
    /\ UNCHANGED <<cqObj, rf, qManager, rec, chanVars, queueVars>>

\* The predicate of `cq` calls the queue manager (AddClusterQueue,
\* UpdateClusterQueue or DeleteClusterQueue), logs an error, and returns true.
\*   fails   the call fails
qManagerCall(cq, fails) ==
    /\ cq \in DOMAIN proc
    /\ proc[cq].pc = "qManager"
    /\ LET p    == proc[cq]
           r    == IF p.call.op = "Create" THEN qManagerAdd(qManager, cq, fails)
                   ELSE IF p.call.op = "Update" THEN qManagerUpdate(qManager, cq, fails)
                   ELSE [err |-> FALSE, qManager |-> qManagerDelete(qManager, cq)]
       IN  /\ qManager' = r.qManager
           /\ last' = [p.call EXCEPT !.ret = TRUE,
                                     !.called = @ \cup {"qManager"},
                                     !.callErrs = IF r.err THEN @ \cup {"qManager"} ELSE @]
           /\ proc' = [proc EXCEPT ![cq] = Passing]
    /\ UNCHANGED <<cqObj, rf, cache, rec, chanVars, queueVars>>

\* The predicate of `cq` returned true: the handler of For(&kueue.ClusterQueue{})
\* adds the request for `cq` to the work queue.
Enqueue(cq) ==
    /\ cq \in DOMAIN proc
    /\ proc[cq].pc = "enqueue"
    /\ workqueue' = Add(workqueue, cq)
    /\ proc' = Restrict(proc, DOMAIN proc \ {cq})
    /\ UNCHANGED <<storeVars, last, rec, chanVars, waiting>>

\* The objects of the events that are not ClusterQueues.
OtherObjects == {"workload"}

\* The invocation record of a predicate that returned `ret` without a call.
Passed(op, obj, ret) == [NoCall EXCEPT !.op = op, !.q = obj, !.ret = ret]

\* Create(e) for an object that is not a ClusterQueue: `if !match { return true }`.
CreateOther(obj) ==
    /\ obj \in OtherObjects
    /\ last' = Passed("Create", obj, TRUE)
    /\ UNCHANGED <<storeVars, proc, rec, chanVars, queueVars>>

\* Update(e) for an object that is not a ClusterQueue.
UpdateOther(obj) ==
    /\ obj \in OtherObjects
    /\ last' = Passed("Update", obj, TRUE)
    /\ UNCHANGED <<storeVars, proc, rec, chanVars, queueVars>>

\* Delete(e) for an object that is not a ClusterQueue.
DeleteOther(obj) ==
    /\ obj \in OtherObjects
    /\ last' = Passed("Delete", obj, TRUE)
    /\ UNCHANGED <<storeVars, proc, rec, chanVars, queueVars>>

\* Generic(e): the event is logged and passes.
Generic(obj) ==
    /\ last' = Passed("Generic", obj, genericResult(obj))
    /\ UNCHANGED <<storeVars, proc, rec, chanVars, queueVars>>

\* A ResourceFlavor is created in the store, referenced by nothing.
CreateFlavor(f) ==
    /\ f \notin DOMAIN rf
    /\ rf' = rf @@ (f :> {})
    /\ last' = Change("CreateFlavor", "none")
    /\ UNCHANGED <<cqObj, cache, qManager, proc, rec, chanVars, queueVars>>

\* ------------------------------------------------------------- Reconcile

\* What client.Status().Update can answer.
WriteResults == {"ok", "notfound", "conflict"}

\* A Reconcile that is running: where it is, the object client.Get read, what
\* cache.Usage answered, and the status computed.
Reconciling(pc, obj, usage, workloads, status) ==
    [pc |-> pc, obj |-> obj, usage |-> usage, workloads |-> workloads,
     status |-> status]

\* The record of a Reconcile of `cq` that returns now.
Reconciled(cq, ret, getRes, called) ==
    [NoCall EXCEPT !.op = "Reconcile", !.q = cq, !.ret = ret,
                   !.getRes = getRes, !.called = called,
                   !.prev = [op |-> last.op, q |-> last.q, ret |-> last.ret]]

\* The store, the cache and the queue manager hold for `cq` what a Reconcile read
\* from them: the status of the object, the usage and the pending count.
Fresh(cq, status, usage, workloads, pending) ==
    /\ cq \in DOMAIN cqObj
    /\ cqObj[cq].status = status
    /\ cq \in DOMAIN cache
    /\ cache[cq] = [usage |-> usage, workloads |-> workloads]
    /\ Pending(qManager, cq) = pending

\* A worker takes the request for `cq` from the work queue, no Reconcile of `cq`
\* running, and Reconcile(req) calls client.Get.
\*   getErr   client.Get fails with an error other than not-found
\* Reconcile returns what client.IgnoreNotFound makes of an error; a request whose
\* Reconcile returned an error is added again after a delay.
clientGet(cq, getErr) ==
    /\ cq \in Range(workqueue)
    /\ cq \notin DOMAIN rec
    /\ workqueue' = Without(workqueue, cq)
    /\ LET res == IF getErr THEN "err"
                  ELSE IF cq \notin DOMAIN cqObj THEN "notfound" ELSE "ok"
       IN  IF res # "ok"
           THEN /\ last' = Reconciled(cq, IgnoreNotFound(res), res, {})
                /\ waiting' = IF IgnoreNotFound(res) THEN waiting
                              ELSE AddAfter(waiting, cq)
                /\ rec' = rec
           ELSE /\ rec' = rec @@ (cq :> Reconciling("usage", cqObj[cq],
                                       ZeroStatus.UsedResources, 0, ZeroStatus))
                /\ UNCHANGED <<last, waiting>>
    /\ UNCHANGED <<storeVars, proc, chanVars>>

\* Status(cq) of the Reconcile of `cq` calls cache.Usage: on an error Status and
\* Reconcile return it.
cacheUsage(cq) ==
    /\ cq \in DOMAIN rec
    /\ rec[cq].pc = "usage"
    /\ LET u == Usage(cache, cq)
       IN  IF afterUsage(u.err) = "return"
           THEN /\ last' = Reconciled(cq, FALSE, "ok", {"cache"})
                /\ waiting' = AddAfter(waiting, cq)
                /\ rec' = Restrict(rec, DOMAIN rec \ {cq})
           ELSE /\ rec' = [rec EXCEPT ![cq] =
                             Reconciling("pending", rec[cq].obj, u.usage, u.workloads,
                                         ZeroStatus)]
                /\ UNCHANGED <<last, waiting>>
    /\ UNCHANGED <<storeVars, proc, chanVars, workqueue>>

\* Status(cq) calls qManager.Pending and returns the status; Reconcile compares it
\* with the status of the object client.Get read, and returns when
\* equality.Semantic.DeepEqual finds them equal.
qManagerPending(cq) ==
    /\ cq \in DOMAIN rec
    /\ rec[cq].pc = "pending"
    /\ LET r      == rec[cq]
           status == Status(r.usage, r.workloads, Pending(qManager, cq))
       IN  IF SemanticDeepEqual(status, r.obj.status)
           THEN /\ last' = [Reconciled(cq, TRUE, "ok", {"cache", "qManager"})
                               EXCEPT !.fresh = Fresh(cq, r.obj.status, r.usage,
                                                      r.workloads,
                                                      status.PendingWorkloads)]
                /\ rec' = Restrict(rec, DOMAIN rec \ {cq})
           ELSE /\ rec' = [rec EXCEPT ![cq] =
                             Reconciling("write", r.obj, r.usage, r.workloads, status)]
                /\ last' = last
    /\ UNCHANGED <<storeVars, proc, chanVars, queueVars>>

\* Reconcile of `cq` assigns the computed status to the object it read and calls
\* client.Status().Update.
\*   writeRes  the answer: not-found when the store does not hold the object,
\*             otherwise success, the status being stored, or a conflict
clientStatusUpdate(cq, writeRes) ==
    /\ cq \in DOMAIN rec
    /\ rec[cq].pc = "write"
    /\ writeRes = "notfound" <=> cq \notin DOMAIN cqObj
    /\ LET r    == rec[cq]
           sent == statusUpdate(r.obj, r.status)
       IN  /\ cqObj' = IF writeRes = "ok"
                       THEN [cqObj EXCEPT ![cq].status = sent.status]
                       ELSE cqObj
           /\ last' = [Reconciled(cq, IgnoreNotFound(writeRes), "ok",
                                  {"cache", "qManager"})
                          EXCEPT !.statusWrites = 1,
                                 !.writeRes = writeRes,
                                 !.statusWritten = sent.status,
                                 !.fresh = Fresh(cq, r.obj.status, r.usage,
                                                 r.workloads,
                                                 r.status.PendingWorkloads)]
           /\ waiting' = IF IgnoreNotFound(writeRes) THEN waiting
                         ELSE AddAfter(waiting, cq)
    /\ rec' = Restrict(rec, DOMAIN rec \ {cq})
    /\ UNCHANGED <<rf, cache, qManager, proc, chanVars, workqueue>>

\* The cache's accounting changes: workloads are admitted to `cq` or finish.
CacheUsageChange(cq, usage, workloads) ==
    /\ cq \in DOMAIN cache
    /\ cache[cq] # [usage |-> usage, workloads |-> workloads]
    /\ cache' = [cache EXCEPT ![cq] = [usage |-> usage, workloads |-> workloads]]
    /\ last' = Change("CacheUsageChange", cq)
    /\ UNCHANGED <<cqObj, rf, qManager, proc, rec, chanVars, queueVars>>

\* The queue manager's accounting changes: workloads are queued in `cq` or leave it.
PendingChange(cq, pending) ==
    /\ cq \in DOMAIN qManager
    /\ qManager[cq] # pending
    /\ qManager' = [qManager EXCEPT ![cq] = pending]
    /\ last' = Change("PendingChange", cq)
    /\ UNCHANGED <<cqObj, rf, cache, proc, rec, chanVars, queueVars>>

\* ------------------------------------------------ the path of workload events

\* NotifyWorkloadUpdate(w), at most `max` calls in all.
NotifyWorkloadUpdate(w, max) ==
    /\ nNotify < max
    /\ nNotify' = nNotify + 1
    /\ LET snd == chSend(wlUpdateCh, sendq, w)
       IN  /\ wlUpdateCh' = snd.ch
           /\ sendq' = snd.sendq
           /\ pushed' = IF snd.returned THEN Append(pushed, w) ELSE pushed
           /\ last' = [NoCall EXCEPT !.op = "NotifyWorkloadUpdate",
                                     !.ret = snd.returned]
    /\ UNCHANGED <<storeVars, proc, rec, held, delivered, queueVars>>

\* The channel source receives the oldest event of the channel, which lets the
\* oldest blocked sender put its event in the buffer and return.
Receive ==
    /\ wlUpdateCh # << >>
    /\ held' = Append(held, Head(wlUpdateCh))
    /\ IF sendq # << >>
       THEN /\ wlUpdateCh' = Append(Tail(wlUpdateCh), Head(sendq))
            /\ sendq' = Tail(sendq)
            /\ pushed' = Append(pushed, Head(sendq))
       ELSE /\ wlUpdateCh' = Tail(wlUpdateCh)
            /\ UNCHANGED <<sendq, pushed>>
    /\ UNCHANGED <<storeVars, last, proc, rec, delivered, nNotify, queueVars>>

\* The source hands the oldest event it received to the predicate Generic and, if
\* that returns true, to cqWorkloadHandler.Generic.
Handle ==
    /\ held # << >>
    /\ held' = Tail(held)
    /\ LET e == Head(held)
           h == workloadGeneric(waiting, e)
       IN  IF genericResult(e.name)
           THEN /\ delivered' = Append(delivered, e)
                /\ waiting' = h.waiting
                /\ last' = h.call
           ELSE /\ UNCHANGED <<delivered, waiting>>
                /\ last' = Passed("Generic", e.name, FALSE)
    /\ UNCHANGED <<storeVars, proc, rec, wlUpdateCh, sendq, pushed, nNotify,
                   workqueue>>

\* The batch period of the oldest waiting request elapses: it is queued.
TimerFires ==
    /\ waiting # << >>
    /\ workqueue' = Add(workqueue, Head(waiting))
    /\ waiting' = Tail(waiting)
    /\ UNCHANGED <<storeVars, last, proc, rec, chanVars>>

\* The cache's accounting of `cq` changes for the workload `w` admitted to it, and
\* the one that changed it calls NotifyWorkloadUpdate(w).
CacheChangeNotified(cq, usage, workloads, w, max) ==
    /\ w.admission = cq
    /\ cq \in DOMAIN cache
    /\ cache[cq] # [usage |-> usage, workloads |-> workloads]
    /\ cache' = [cache EXCEPT ![cq] = [usage |-> usage, workloads |-> workloads]]
    /\ nNotify < max
    /\ nNotify' = nNotify + 1
    /\ LET snd == chSend(wlUpdateCh, sendq, w)
       IN  /\ wlUpdateCh' = snd.ch
           /\ sendq' = snd.sendq
           /\ pushed' = IF snd.returned THEN Append(pushed, w) ELSE pushed
    /\ last' = Change("CacheUsageChange", cq)
    /\ UNCHANGED <<cqObj, rf, qManager, proc, rec, held, delivered, queueVars>>

\* The queue manager's pending count of `cq` changes for the workload `w`, not
\* admitted and queued in a local queue of `cq`, and the one that changed it calls
\* NotifyWorkloadUpdate(w).
PendingChangeNotified(cq, pending, w, max) ==
    /\ w.admission = "none"
    /\ w.queue \in DOMAIN LocalQueues
    /\ LocalQueues[w.queue] = cq
    /\ cq \in DOMAIN qManager
    /\ qManager[cq] # pending
    /\ qManager' = [qManager EXCEPT ![cq] = pending]
    /\ nNotify < max
    /\ nNotify' = nNotify + 1
    /\ LET snd == chSend(wlUpdateCh, sendq, w)
       IN  /\ wlUpdateCh' = snd.ch
           /\ sendq' = snd.sendq
           /\ pushed' = IF snd.returned THEN Append(pushed, w) ELSE pushed
    /\ last' = Change("PendingChange", cq)
    /\ UNCHANGED <<cqObj, rf, cache, proc, rec, held, delivered, queueVars>>

\* ---------------------------------------------------------- specifications

Init ==
    /\ cqObj = << >>
    /\ rf = ("f1" :> {})
    /\ cache = << >>
    /\ qManager = << >>
    /\ last = NoCall
    /\ proc = << >>
    /\ rec = << >>
    /\ wlUpdateCh = << >>
    /\ sendq = << >>
    /\ pushed = << >>
    /\ held = << >>
    /\ delivered = << >>
    /\ waiting = << >>
    /\ workqueue = << >>
    /\ nNotify = 0

\* The specs of the reference synchronisation: one flavor, the other, both.
RefSpecs == { OnlyF1, OnlyF2, BothInOne }

\* The queue of the specifications that follow one queue.
OneQueue == {"q1"}

\* Reference synchronisation of one queue: every event of the queue over the specs
\* of RefSpecs, List and client.Update failing or not, flavors being created, and
\* the Reconciles of the requests; the cache and the queue manager accept every
\* call.  No workload is admitted or queued: the status a Reconcile computes is
\* the stored one, and it returns without a write.
Next ==
    \/ \E cq \in OneQueue, spec \in RefSpecs : Create(cq, spec)
    \/ \E cq \in OneQueue, spec \in RefSpecs : Update(cq, spec)
    \/ \E cq \in OneQueue : Delete(cq)
    \/ \E cq \in OneQueue, fails \in BOOLEAN : clientList(cq, fails)
    \/ \E cq \in OneQueue, f \in FlavorNames, fails \in BOOLEAN :
            clientUpdate(cq, f, fails, FALSE)
    \/ \E cq \in OneQueue : cacheCall(cq, FALSE)
    \/ \E cq \in OneQueue : qManagerCall(cq, FALSE)
    \/ \E cq \in OneQueue : Enqueue(cq)
    \/ \E f \in FlavorNames : CreateFlavor(f)
    \/ \E cq \in OneQueue : clientGet(cq, FALSE)
    \/ \E cq \in OneQueue : cacheUsage(cq)
    \/ \E cq \in OneQueue : qManagerPending(cq)

Spec == Init /\ [][Next]_vars

\* The specs of the queue whose spec changes while the other queue's predicate runs.
ConcurrentSpecs == { OnlyF1, BothInOne }

\* Concurrent predicates: the events of the two queues are handled on two
\* goroutines, the calls of one predicate interleaved with the calls of the other;
\* both queues name the flavor f1.  The store accepts a flavor that was written
\* since it was listed, or refuses it; nothing else fails.
NextConcurrent ==
    \/ \E cq \in Queues : Create(cq, OnlyF1)
    \/ \E cq \in Queues \ OneQueue, spec \in ConcurrentSpecs : Update(cq, spec)
    \/ \E cq \in Queues : Delete(cq)
    \/ \E cq \in Queues : clientList(cq, FALSE)
    \/ \E cq \in Queues, f \in FlavorNames, staleAccepted \in BOOLEAN :
            clientUpdate(cq, f, FALSE, staleAccepted)
    \/ \E cq \in Queues : cacheCall(cq, FALSE)
    \/ \E cq \in Queues : qManagerCall(cq, FALSE)
    \/ \E cq \in Queues : Enqueue(cq)

SpecConcurrent == Init /\ [][NextConcurrent]_vars

\* Admission decisions: one queue, every spec, List failures and failures of the
\* cache's and the queue manager's calls; every client.Update of a flavor succeeds.
\* The events of other objects and the generic events go through the predicates too.
NextGate ==
    \/ \E cq \in OneQueue, spec \in SpecChoices : Create(cq, spec)
    \/ \E cq \in OneQueue, spec \in SpecChoices : Update(cq, spec)
    \/ \E cq \in OneQueue : Delete(cq)
    \/ \E cq \in OneQueue, fails \in BOOLEAN : clientList(cq, fails)
    \/ \E cq \in OneQueue, f \in FlavorNames : clientUpdate(cq, f, FALSE, FALSE)
    \/ \E cq \in OneQueue, fails \in BOOLEAN : cacheCall(cq, fails)
    \/ \E cq \in OneQueue, fails \in BOOLEAN : qManagerCall(cq, fails)
    \/ \E cq \in OneQueue : Enqueue(cq)
    \/ \E f \in FlavorNames : CreateFlavor(f)
    \/ \E obj \in OtherObjects : CreateOther(obj)
    \/ \E obj \in OtherObjects : UpdateOther(obj)
    \/ \E obj \in OtherObjects : DeleteOther(obj)
    \/ \E obj \in OtherObjects \cup OneQueue : Generic(obj)

SpecGate == Init /\ [][NextGate]_vars

\* The spec of the queue in the specifications of the status.
StatusSpecs == { OnlyF1 }

\* Status: one queue is created, and its Create event delivered again; workloads
\* are admitted, queued and finished; the store answers every call.  The calls of a
\* Reconcile are interleaved with the calls of the predicate and with the changes.

NextStatus ==
    \/ \E cq \in OneQueue, spec \in StatusSpecs : Create(cq, spec)
    \/ \E cq \in OneQueue : clientList(cq, FALSE)
    \/ \E cq \in OneQueue, f \in FlavorNames : clientUpdate(cq, f, FALSE, FALSE)
    \/ \E cq \in OneQueue : cacheCall(cq, FALSE)
    \/ \E cq \in OneQueue : qManagerCall(cq, FALSE)
    \/ \E cq \in OneQueue : Enqueue(cq)
    \/ \E cq \in OneQueue, u \in UsedResourcesValues, w \in 0..MaxWorkloads :
            CacheUsageChange(cq, u, w)
    \/ \E cq \in OneQueue, p \in 0..MaxWorkloads : PendingChange(cq, p)
    \/ \E cq \in OneQueue : clientGet(cq, FALSE)
    \/ \E cq \in OneQueue : cacheUsage(cq)
    \/ \E cq \in OneQueue : qManagerPending(cq)
    \/ \E cq \in OneQueue, writeRes \in {"ok"} :
            clientStatusUpdate(cq, writeRes)

SpecStatus == Init /\ [][NextStatus]_vars

\* Reconcile and deletion: one queue is created and deleted, workloads are queued
\* and leave, client.Get fails or not, and the status write is answered in every
\* way; the calls of a Reconcile are interleaved with the calls of the predicates.
NextNotFound ==
    \/ \E cq \in OneQueue, spec \in StatusSpecs : Create(cq, spec)
    \/ \E cq \in OneQueue : Delete(cq)
    \/ \E cq \in OneQueue : clientList(cq, FALSE)
    \/ \E cq \in OneQueue, f \in FlavorNames : clientUpdate(cq, f, FALSE, FALSE)
    \/ \E cq \in OneQueue : cacheCall(cq, FALSE)
    \/ \E cq \in OneQueue : qManagerCall(cq, FALSE)
    \/ \E cq \in OneQueue : Enqueue(cq)
    \/ \E cq \in OneQueue, p \in 0..MaxWorkloads : PendingChange(cq, p)
    \/ \E cq \in OneQueue, getErr \in BOOLEAN : clientGet(cq, getErr)
    \/ \E cq \in OneQueue : cacheUsage(cq)
    \/ \E cq \in OneQueue : qManagerPending(cq)
    \/ \E cq \in OneQueue, writeRes \in WriteResults : clientStatusUpdate(cq, writeRes)

SpecNotFound == Init /\ [][NextNotFound]_vars

\* How many times NotifyWorkloadUpdate is called in the specifications of the
\* workload events but the one of the channel.
MaxNotify == 2

\* Workload events: the workloads are notified, the events received and handled,
\* the requests wait, are queued and reconciled; one queue is created.
NextBridge ==
    \/ \E w \in WlObjects : NotifyWorkloadUpdate(w, MaxNotify)
    \/ Receive
    \/ Handle
    \/ TimerFires
    \/ \E cq \in Queues : clientGet(cq, FALSE)
    \/ \E cq \in Queues : cacheUsage(cq)
    \/ \E cq \in Queues : qManagerPending(cq)
    \/ \E cq \in OneQueue, spec \in StatusSpecs : Create(cq, spec)
    \/ \E cq \in OneQueue : clientList(cq, FALSE)
    \/ \E cq \in OneQueue, f \in FlavorNames : clientUpdate(cq, f, FALSE, FALSE)
    \/ \E cq \in OneQueue : cacheCall(cq, FALSE)
    \/ \E cq \in OneQueue : qManagerCall(cq, FALSE)
    \/ \E cq \in OneQueue : Enqueue(cq)

SpecBridge == Init /\ [][NextBridge]_vars

\* Convergence: one queue is created, its workloads are admitted, queued and
\* finished, each change followed by its notification; the store answers every
\* call.  The goroutines of the predicates, the source's receive loop and its
\* handler, the queue's timer and the workers that run Reconcile go on for as long
\* as the controller runs.
NextConverge ==
    \/ \E cq \in OneQueue, spec \in StatusSpecs : Create(cq, spec)
    \/ \E cq \in OneQueue : clientList(cq, FALSE)
    \/ \E cq \in OneQueue, f \in FlavorNames : clientUpdate(cq, f, FALSE, FALSE)
    \/ \E cq \in OneQueue : cacheCall(cq, FALSE)
    \/ \E cq \in OneQueue : qManagerCall(cq, FALSE)
    \/ \E cq \in OneQueue : Enqueue(cq)
    \/ \E cq \in OneQueue, u \in UsedResourcesValues, n \in 0..MaxWorkloads,
          w \in WlObjects :
            CacheChangeNotified(cq, u, n, w, MaxNotify)
    \/ \E cq \in OneQueue, p \in 0..MaxWorkloads, w \in WlObjects :
            PendingChangeNotified(cq, p, w, MaxNotify)
    \/ Receive
    \/ Handle
    \/ TimerFires
    \/ \E cq \in OneQueue : clientGet(cq, FALSE)
    \/ \E cq \in OneQueue : cacheUsage(cq)
    \/ \E cq \in OneQueue : qManagerPending(cq)
    \/ \E cq \in OneQueue : clientStatusUpdate(cq, "ok")

SpecConverge ==
    /\ Init
    /\ [][NextConverge]_vars
    /\ WF_vars(Receive)
    /\ WF_vars(Handle)
    /\ WF_vars(TimerFires)
    /\ \A cq \in OneQueue :
          /\ WF_vars(clientList(cq, FALSE))
          /\ WF_vars(\E f \in FlavorNames : clientUpdate(cq, f, FALSE, FALSE))
          /\ WF_vars(cacheCall(cq, FALSE))
          /\ WF_vars(qManagerCall(cq, FALSE))
          /\ WF_vars(Enqueue(cq))
          /\ WF_vars(clientGet(cq, FALSE))
          /\ WF_vars(cacheUsage(cq))
          /\ WF_vars(qManagerPending(cq))
          /\ WF_vars(clientStatusUpdate(cq, "ok"))

\* The state after the flavors `E` were created and then the queue q2 with the
\* resources `spec2`, nothing having failed.
InitAfterCreate(E, spec2) ==
    /\ cqObj = ("q2" :> [spec |-> spec2, status |-> ZeroStatus])
    /\ rf = [f \in E |-> IF f \in flavorKeys(spec2) THEN {"q2"} ELSE {}]
    /\ cache = cacheAdd(<< >>, "q2", FALSE).cache
    /\ qManager = qManagerAdd(<< >>, "q2", FALSE).qManager
    /\ last = NoCall
    /\ proc = << >>
    /\ rec = << >>
    /\ wlUpdateCh = << >>
    /\ sendq = << >>
    /\ pushed = << >>
    /\ held = << >>
    /\ delivered = << >>
    /\ waiting = << >>
    /\ workqueue = << >>
    /\ nNotify = 0

InitRoundTrip ==
    \E E \in SUBSET FlavorNames, spec2 \in RefSpecs : InitAfterCreate(E, spec2)

\* Round trips: over a fixed set of flavors, some of them referenced by q2, the
\* queue q1 is created, changed and deleted; every List and every client.Update
\* of a flavor succeeds.
NextRoundTrip ==
    \/ \E cq \in OneQueue, spec \in SpecChoices : Create(cq, spec)
    \/ \E cq \in OneQueue, spec \in SpecChoices : Update(cq, spec)
    \/ \E cq \in OneQueue : Delete(cq)
    \/ \E cq \in OneQueue : clientList(cq, FALSE)
    \/ \E cq \in OneQueue, f \in FlavorNames : clientUpdate(cq, f, FALSE, FALSE)
    \/ \E cq \in OneQueue, fails \in BOOLEAN : cacheCall(cq, fails)
    \/ \E cq \in OneQueue, fails \in BOOLEAN : qManagerCall(cq, fails)
    \/ \E cq \in OneQueue : Enqueue(cq)

SpecRoundTrip == InitRoundTrip /\ [][NextRoundTrip]_vars

\* How many times NotifyWorkloadUpdate is called in the specification of the
\* channel: more than the channel buffers.
MaxPushes == 11

\* The workload of the k-th call of NotifyWorkloadUpdate in the specification of
\* the channel: every call notifies another workload.
ChannelWorkload(k) ==
    [name |-> "w" \o ToString(k), admission |-> "q1", queue |-> "lq1"]

\* The channel: callers notify workloads, the source receives the events and hands
\* them over.  The source's goroutines loop for as long as the controller runs:
\* they receive whenever there is an event and hand over whenever one was received.
NextChannel ==
    \/ NotifyWorkloadUpdate(ChannelWorkload(nNotify + 1), MaxPushes)
    \/ Receive
    \/ Handle

SpecChannel == Init /\ [][NextChannel]_vars /\ WF_vars(Receive) /\ WF_vars(Handle)


\* ------------------------------------------------------------------ claims

\* The flavors the old spec of an invocation names and the new one does not, and
\* the other way round.
OldOnly(call) == flavorKeys(call.old) \ flavorKeys(call.new)

NewOnly(call) == flavorKeys(call.new) \ flavorKeys(call.old)

\* The spec of `cq` in the store; a deleted queue names no flavor.
CurrentSpec(store, cq) == IF cq \in DOMAIN store THEN store[cq].spec ELSE EmptySpec

\* No predicate is between its call and its return.
NoPredicateRunning == \A cq \in DOMAIN proc : proc[cq].pc = "enqueue"

\* The back-references of `cq` are exact in the flavors `flavors`, for the queues
\* stored in `store`.
BackRefExact(flavors, store, cq) ==
    \A f \in DOMAIN flavors :
        cq \in flavors[f] <=> f \in flavorKeys(CurrentSpec(store, cq))

\* The step is the return of the predicate running for `cq`: `last` is then the
\* record of the invocation.
PredicateReturns(cq) ==
    /\ cq \in DOMAIN proc
    /\ proc[cq].pc # "enqueue"
    /\ cq \notin DOMAIN proc' \/ proc'[cq].pc = "enqueue"

\* The step is the return of updateReferences without an error in the predicate
\* running for `cq`: the record of the invocation is proc'[cq].call.
SyncReturns(cq) ==
    /\ cq \in DOMAIN proc
    /\ proc[cq].pc \in {"list1", "list2", "remove", "add"}
    /\ cq \in DOMAIN proc'
    /\ proc'[cq].pc = "cache"

\* The step is a turn of the loop in the predicate running for `cq`.
LoopTurn(cq) ==
    /\ cq \in DOMAIN proc
    /\ proc[cq].pc \in {"remove", "add"}
    /\ cq \in DOMAIN proc'
    /\ proc'[cq] # proc[cq]

\* C1: whenever no predicate is running, every queue is named by exactly the
\* existing flavors its stored spec lists (a deleted queue by none).  Counterexample:
\* two predicates that interleave leave a flavor without one of the queues.
C1_BackReferenceAlways ==
    NoPredicateRunning => \A cq \in Queues : BackRefExact(rf, cqObj, cq)

\* C2: when updateReferences returns without an error, every flavor having been
\* listed and every client.Update having succeeded, the queue is in no flavor that
\* only the old spec names and in every flavor that only the new spec names; the
\* call updates no other flavor, and no step of it changes another flavor.
C2_SymmetricDifference ==
    /\ [][\A cq \in Queues :
            (SyncReturns(cq) /\ proc'[cq].call.missing = {}
                             /\ proc'[cq].call.failed = {}) =>
                LET call == proc'[cq].call
                IN  /\ \A f \in OldOnly(call) : f \in DOMAIN rf' /\ cq \notin rf'[f]
                    /\ \A f \in NewOnly(call) : f \in DOMAIN rf' /\ cq \in rf'[f]
                    /\ call.written = OldOnly(call) \cup NewOnly(call)]_vars
    /\ [][\A cq \in Queues : LoopTurn(cq) =>
            \A f \in DOMAIN rf :
                rf'[f] # rf[f] =>
                    f \in OldOnly(proc[cq].call) \cup NewOnly(proc[cq].call)]_vars

\* A change of spec that drops one flavor and adds another was synchronised, both
\* flavors existing and both updates succeeding.
C2_Witness ==
    \E cq \in DOMAIN proc :
        /\ proc[cq].pc = "cache"
        /\ proc[cq].call.op = "Update"
        /\ OldOnly(proc[cq].call) # {}
        /\ NewOnly(proc[cq].call) # {}
        /\ proc[cq].call.written = OldOnly(proc[cq].call) \cup NewOnly(proc[cq].call)
        /\ proc[cq].call.failed = {}
        /\ proc[cq].call.missing = {}

\* C3: a predicate whose reference synchronisation returned an error has changed
\* no flavor of the store, and the error is the one of a List.  Counterexample: the second List
\* fails after the removals were stored.
C3_AllOrNothing ==
    [][\A cq \in Queues :
         (PredicateReturns(cq) /\ last'.syncErr) =>
             /\ last'.listErr
             /\ last'.changed = {}]_vars

\* C9: a change of spec handled by Update without a failure, coming after a
\* Reconcile of the queue that succeeded, leaves the back-references of the queue
\* exact.  Counterexample: a flavor both specs name, whose update failed at the
\* creation, still lacks the queue.
C9_Repair ==
    [][\A cq \in Queues :
         (/\ PredicateReturns(cq)
          /\ last'.op = "Update"
          /\ last'.old # last'.new
          /\ last'.prev = [op |-> "Reconcile", q |-> cq, ret |-> TRUE]
          /\ ~last'.syncErr
          /\ last'.failed = {}
          /\ last'.missing = {}) =>
             BackRefExact(rf', cqObj', cq)]_vars

\* C10: a predicate whose Lists succeeded returns true whatever client.Update
\* answered and whichever flavor was missing: every flavor to remove or to add is
\* either missing or was sent to the store.  Each turn of the loop sends one
\* flavor, which holds the change when the update is applied and leaves the store
\* as it was when it fails, and the loop goes on with the other flavors.
C10_FailureIsolation ==
    /\ [][\A cq \in Queues :
            (PredicateReturns(cq) /\ ~last'.listErr) =>
                /\ last'.ret
                /\ ~last'.syncErr
                /\ last'.listCalls = 2 =>
                      OldOnly(last') \cup NewOnly(last')
                          = last'.written \cup last'.missing]_vars
    /\ [][\A cq \in Queues : LoopTurn(cq) =>
            LET was  == proc[cq]
                now  == proc'[cq]
                sent == now.call.written \ was.call.written
            IN  /\ Cardinality(sent) = 1
                /\ sent \subseteq was.todo
                /\ \A f \in sent :
                      IF f \in now.call.failed
                      THEN rf' = rf
                      ELSE /\ was.pc = "add" => cq \in rf'[f]
                           /\ was.pc = "remove" => cq \notin rf'[f]
                /\ was.todo \ sent # {} =>
                      /\ now.pc = was.pc
                      /\ now.todo = was.todo \ sent]_vars

\* A predicate returned true after a client.Update failed and another one of the
\* same call was applied.
C10_Witness ==
    /\ last.op \in {"Create", "Update", "Delete"}
    /\ last.ret
    /\ last.failed # {}
    /\ last.changed # {}

\* The predicate of the stored queue `cq` returned true.
Returned(cq) ==
    /\ cq \in DOMAIN cqObj
    /\ cq \in DOMAIN proc
    /\ proc[cq].pc = "enqueue"

\* C19: once the predicates of two queues, whose specs both name an existing
\* flavor, have returned true, the flavor holds both names.  Counterexample: both
\* list the flavor before either updates it.
C19_NoLostReference ==
    \A f \in DOMAIN rf :
        (\A cq \in Queues : Returned(cq) /\ f \in flavorKeys(cqObj[cq].spec)) =>
            Queues \subseteq rf[f]

\* ------------------------------------------- claims on the decisions of the predicates

\* C6: when Delete returns, with either decision, neither the cache nor the queue
\* manager holds the queue.  Counterexample: the List of the removal fails and
\* Delete returns before it calls them.
C6_DeleteRemoves ==
    [][\A cq \in Queues :
         (PredicateReturns(cq) /\ last'.op = "Delete") =>
             /\ cq \notin DOMAIN cache'
             /\ cq \notin DOMAIN qManager']_vars

\* C7: Create returns false exactly when updateReferences returned an error, and
\* then calls neither the cache nor the queue manager; otherwise it calls both,
\* the queue manager also after the cache's call failed, and returns true.
C7_CreateDecision ==
    /\ [][\A cq \in Queues :
            (PredicateReturns(cq) /\ last'.op = "Create") =>
                /\ last'.old = EmptySpec
                /\ last'.new = CurrentSpec(cqObj, cq)
                /\ last'.ret <=> ~last'.syncErr
                /\ last'.syncErr <=> last'.listErr
                /\ last'.syncErr => last'.called = {}
                /\ ~last'.syncErr => last'.called = {"cache", "qManager"}]_vars
    /\ [][\A cq \in Queues :
            (/\ cq \in DOMAIN proc
             /\ proc[cq].pc = "cache"
             /\ proc[cq].call.op = "Create"
             /\ proc' # proc) =>
                /\ cq \in DOMAIN proc'
                /\ proc'[cq].pc = "qManager"]_vars

\* Create returned true although both the cache and the queue manager failed.
C7_Witness ==
    /\ last.op = "Create"
    /\ last.ret
    /\ last.callErrs = {"cache", "qManager"}

\* C8: an Update that returns true without a List failing, handled right after
\* the Create of the queue returned false, leaves the queue known to the cache and
\* to the queue manager and named by every existing flavor of its spec.
\* Counterexample: Update neither adds the queue nor visits the flavors that both
\* specs name.
C8_RetryAfterSuppressedCreate ==
    [][\A cq \in Queues :
         (/\ PredicateReturns(cq)
          /\ last'.op = "Update"
          /\ last'.prev = [op |-> "Create", q |-> cq, ret |-> FALSE]
          /\ last'.ret
          /\ ~last'.listErr) =>
             /\ cq \in DOMAIN cache'
             /\ cq \in DOMAIN qManager'
             /\ ~Usage(cache', cq).err
             /\ BackRefExact(rf', cqObj', cq)]_vars

\* C17: Update calls updateReferences exactly when the Spec.Resources of the old
\* and of the new object differ, and then for the flavors only one of them names;
\* when updateReferences is skipped or returns no error the cache and the queue
\* manager are both called and Update returns true, whether these calls fail or
\* not; it returns false only when updateReferences returned an error.
C17_UpdateDecision ==
    [][\A cq \in Queues :
         (PredicateReturns(cq) /\ last'.op = "Update") =>
             /\ last'.new = CurrentSpec(cqObj, cq)
             /\ last'.listCalls > 0 <=> last'.old # last'.new
             /\ (last'.written \cup last'.missing)
                    \subseteq OldOnly(last') \cup NewOnly(last')
             /\ ~last'.syncErr =>
                    /\ last'.ret
                    /\ last'.called = {"cache", "qManager"}
             /\ last'.syncErr <=> ~last'.ret
             /\ ~last'.ret => last'.called = {}]_vars

\* An Update that changed a quota only called updateReferences, which updated no
\* flavor, and returned true although the cache's and the queue manager's calls
\* failed.
C17_Witness ==
    /\ last.op = "Update"
    /\ last.old # last.new
    /\ flavorKeys(last.old) = flavorKeys(last.new)
    /\ flavorKeys(last.old) # {}
    /\ last.listCalls = 2
    /\ last.written = {}
    /\ last.ret
    /\ last.callErrs = {"cache", "qManager"}

\* The step is the return of a predicate handed an object that is not a
\* ClusterQueue, or of Generic handed any object.
PassStep ==
    /\ last' # last
    /\ \/ last'.op \in {"Create", "Update", "Delete"} /\ last'.q \in OtherObjects
       \/ last'.op = "Generic"

\* C18: Create, Update and Delete with an object that is not a ClusterQueue, and
\* Generic with any object, return true and change neither the cache, nor the
\* queue manager, nor a flavor, nor a stored queue.
C18_PassThrough ==
    [][PassStep =>
         /\ last'.ret
         /\ last'.called = {}
         /\ last'.written = {}
         /\ last'.listCalls = 0
         /\ UNCHANGED <<cqObj, rf, cache, qManager>>]_vars

\* Generic passed the event of a queue that is stored, known to the cache and
\* named by a flavor.
C18_Witness ==
    /\ last.op = "Generic"
    /\ last.ret
    /\ last.q \in DOMAIN cqObj
    /\ last.q \in DOMAIN cache
    /\ \E f \in DOMAIN rf : last.q \in rf[f]

\* ------------------------------------------------------- claims on Reconcile

\* Two statuses with the same used resources and the same counts.
SameStatus(a, b) ==
    /\ a.UsedResources.kv = b.UsedResources.kv
    /\ a.AdmittedWorkloads = b.AdmittedWorkloads
    /\ a.PendingWorkloads = b.PendingWorkloads

\* The step is the call the Reconcile of `cq` makes when it is at `pc`.
ReconcileCall(cq, pc) ==
    /\ cq \in DOMAIN rec
    /\ rec[cq].pc = pc
    /\ cq \notin DOMAIN rec' \/ rec'[cq] # rec[cq]

\* The step takes the request for `cq` from the work queue: its Reconcile starts.
ReconcileStarts(cq) ==
    /\ cq \in Range(workqueue)
    /\ cq \notin Range(workqueue')

\* The step is the return of the Reconcile of `cq`: `last` is then its record.
ReconcileReturns(cq) ==
    \/ cq \in DOMAIN rec /\ cq \notin DOMAIN rec'
    \/ ReconcileStarts(cq) /\ cq \notin DOMAIN rec'

\* C4: a Reconcile of a stored queue the cache knows takes the usage and the
\* admitted workloads from cache.Usage and the pending workloads from
\* qManager.Pending; when this status and the stored one have the same used
\* resources and counts it returns without a write, otherwise it calls
\* client.Status().Update once, with the whole computed status, which the store
\* then holds.
C4_StatusDiff ==
    /\ [][\A cq \in Queues :
            (ReconcileCall(cq, "usage") /\ cq \in DOMAIN cache) =>
                /\ cq \in DOMAIN rec'
                /\ rec'[cq].usage = cache[cq].usage
                /\ rec'[cq].workloads = cache[cq].workloads
                /\ cqObj' = cqObj]_vars
    /\ [][\A cq \in Queues :
            (ReconcileCall(cq, "pending") /\ cq \in DOMAIN cqObj) =>
                LET computed == [UsedResources     |-> rec[cq].usage,
                                 AdmittedWorkloads |-> rec[cq].workloads,
                                 PendingWorkloads  |-> Pending(qManager, cq)]
                IN  /\ cqObj' = cqObj
                    /\ IF SameStatus(computed, cqObj[cq].status)
                       THEN /\ ReconcileReturns(cq)
                            /\ last'.ret
                            /\ last'.statusWrites = 0
                       ELSE /\ cq \in DOMAIN rec'
                            /\ rec'[cq].pc = "write"
                            /\ rec'[cq].status = computed]_vars
    /\ [][\A cq \in Queues :
            ReconcileCall(cq, "write") =>
                /\ ReconcileReturns(cq)
                /\ last'.statusWrites = 1
                /\ last'.statusWritten = rec[cq].status
                /\ last'.writeRes = "ok" => cqObj'[cq].status = rec[cq].status
                /\ cqObj'[cq].spec = cqObj[cq].spec]_vars

\* A Reconcile wrote a status with a used resource, an admitted workload and a
\* pending one, which the store holds.
C4_Witness ==
    /\ last.op = "Reconcile"
    /\ last.statusWrites = 1
    /\ last.writeRes = "ok"
    /\ last.statusWritten.UsedResources.kv # {}
    /\ last.statusWritten.AdmittedWorkloads = 1
    /\ last.statusWritten.PendingWorkloads = 1
    /\ cqObj[last.q].status = last.statusWritten

\* C5 as stated: a Reconcile that returns right after a Reconcile of the same
\* queue returned, nothing having changed the cache or the queue manager in
\* between, calls no status write.  Counterexample: the write of the first was
\* refused with a conflict.
C5_IdempotentAlways ==
    [][\A cq \in Queues :
         (ReconcileReturns(cq) /\ last.op = "Reconcile" /\ last.q = cq) =>
             last'.statusWrites = 0]_vars

\* C5 (amended): a Reconcile that returns right after a Reconcile of the same
\* queue returned calls no status write, when the client.Get of the first did not
\* fail, its status write, if any, was applied, and the store, the cache and the
\* queue manager held at its return what it had read from them.
C5_Idempotent ==
    [][\A cq \in Queues :
         (/\ ReconcileReturns(cq)
          /\ last.op = "Reconcile"
          /\ last.q = cq
          /\ last.getRes # "err"
          /\ last.writeRes \in {"none", "ok"}
          /\ last.fresh) =>
             last'.statusWrites = 0]_vars

\* A Reconcile found nothing to write right after a Reconcile of the same queue
\* that had stored a status with a pending workload.
C5_Witness ==
    /\ last.op = "Reconcile"
    /\ last.prev = [op |-> "Reconcile", q |-> last.q, ret |-> TRUE]
    /\ last.getRes = "ok"
    /\ last.called = {"cache", "qManager"}
    /\ last.statusWrites = 0
    /\ last.q \in DOMAIN cqObj
    /\ cqObj[last.q].status.PendingWorkloads = 1

\* C14: a Reconcile whose client.Get answers not-found returns without an error,
\* having called neither the cache, nor the queue manager, nor a write, and is not
\* retried; so does, but for the calls, one whose status write answers not-found.
\* Every other error of client.Get or of the write is returned, and the request is
\* added again.
C14_NotFoundNoOp ==
    /\ [][\A cq \in Queues :
            ReconcileStarts(cq) =>
                /\ UNCHANGED <<cqObj, rf, cache, qManager>>
                /\ cq \notin DOMAIN cqObj => cq \notin DOMAIN rec'
                /\ cq \notin DOMAIN rec' =>
                      /\ last'.op = "Reconcile"
                      /\ last'.q = cq
                      /\ last'.getRes \in {"notfound", "err"}
                      /\ last'.called = {}
                      /\ last'.statusWrites = 0
                      /\ last'.getRes = "notfound" =>
                            /\ cq \notin DOMAIN cqObj
                            /\ last'.ret
                            /\ waiting' = waiting
                      /\ last'.getRes = "err" =>
                            /\ ~last'.ret
                            /\ cq \in Range(waiting')]_vars
    /\ [][\A cq \in Queues :
            ReconcileCall(cq, "write") =>
                /\ last'.writeRes = "notfound" =>
                      /\ last'.ret
                      /\ waiting' = waiting
                      /\ cqObj' = cqObj
                /\ last'.writeRes = "conflict" =>
                      /\ ~last'.ret
                      /\ cq \in Range(waiting')
                      /\ cqObj' = cqObj]_vars

\* A Reconcile returned without an error after its status write was answered
\* not-found: the queue was deleted after client.Get read it.
C14_Witness ==
    /\ last.op = "Reconcile"
    /\ last.getRes = "ok"
    /\ last.writeRes = "notfound"
    /\ last.ret
    /\ last.q \notin Range(waiting)

\* C15: a Reconcile that read the object and whose cache.Usage answers that the
\* queue is not known returns an error without calling qManager.Pending or a
\* status write; the stored status is left as it was, and the request is added
\* again.
C15_CacheUnknown ==
    [][\A cq \in Queues :
         (ReconcileCall(cq, "usage") /\ cq \notin DOMAIN cache) =>
             /\ ReconcileReturns(cq)
             /\ last'.op = "Reconcile"
             /\ last'.q = cq
             /\ ~last'.ret
             /\ last'.called = {"cache"}
             /\ last'.statusWrites = 0
             /\ cqObj' = cqObj
             /\ cq \in Range(waiting')]_vars

\* A Reconcile of a stored queue returned the error of a cache that does not know
\* the queue.
C15_Witness ==
    /\ last.op = "Reconcile"
    /\ last.getRes = "ok"
    /\ last.called = {"cache"}
    /\ ~last.ret
    /\ last.q \in DOMAIN cqObj
    /\ last.q \notin DOMAIN cache

\* ------------------------------------------------ claims on the workload events

\* How many times the request `n` is in the sequence `q`.
Count(q, n) == Cardinality({ i \in DOMAIN q : q[i] = n })

\* The ClusterQueue a workload's event is for: the one of its admission, else the
\* one of its local queue, "none" when there is neither.
Resolved(w) ==
    IF w.admission # "none" THEN w.admission
    ELSE IF w.queue \in DOMAIN LocalQueues THEN LocalQueues[w.queue]
    ELSE "none"

\* The step hands the oldest received event to the workload handler.
HandlerStep == held # << >> /\ held' = Tail(held)

\* The step ends the batch period of the oldest waiting request.
TimerStep == Len(waiting') < Len(waiting)

\* C11: a workload event for a ClusterQueue whose request is already waiting for
\* the batch period adds no request anywhere; one whose request is not waiting
\* adds exactly that request; so no request waits twice or is queued twice; a
\* request whose period ends is queued once; and a Reconcile starts for a queued
\* request only when none is running for the same queue, and takes the request.
C11_Debounce ==
    /\ [](\A n \in Range(waiting) \cup Range(workqueue) :
             Count(waiting, n) <= 1 /\ Count(workqueue, n) <= 1)
    /\ [][HandlerStep =>
            LET n == Resolved(Head(held))
            IN  /\ workqueue' = workqueue
                /\ (n # "none" /\ n \in Range(waiting)) => waiting' = waiting
                /\ (n # "none" /\ n \notin Range(waiting)) =>
                       waiting' = Append(waiting, n)]_vars
    /\ [][TimerStep =>
            /\ Count(workqueue', Head(waiting)) = 1
            /\ Len(workqueue') <= Len(workqueue) + 1]_vars
    /\ [][\A cq \in Queues :
            ReconcileStarts(cq) =>
                /\ cq \notin DOMAIN rec
                /\ Count(workqueue', cq) = 0
                /\ Len(workqueue') = Len(workqueue) - 1
                /\ cq \in DOMAIN rec' \/ (last'.op = "Reconcile" /\ last'.q = cq)]_vars

\* The events of two different workloads of the same ClusterQueue were handled in
\* its batch period and one request waits.
C11_Witness ==
    /\ last.op = "WorkloadGeneric"
    /\ last.req = "q1"
    /\ last.added = 0
    /\ Len(delivered) >= 2
    /\ delivered[Len(delivered)].name # delivered[Len(delivered) - 1].name
    /\ Resolved(delivered[Len(delivered) - 1]) = "q1"
    /\ Count(waiting, "q1") = 1
    /\ Count(workqueue, "q1") = 0

\* C12: the handler of a workload event asks for the ClusterQueue of the admission
\* without consulting the queue manager when the workload has an admission; else
\* for the ClusterQueue the queue manager answers; and for nothing when the
\* workload has no admission and the queue manager answers none.
C12_Resolution ==
    [][HandlerStep =>
        LET w == Head(held)
        IN  /\ last'.op = "WorkloadGeneric"
            /\ last'.q = w.name
            /\ w.admission # "none" =>
                   /\ last'.req = w.admission
                   /\ "qManager" \notin last'.called
                   /\ Count(waiting', w.admission) = 1
            /\ (w.admission = "none" /\ w.queue \in DOMAIN LocalQueues) =>
                   /\ last'.req = LocalQueues[w.queue]
                   /\ last'.called = {"qManager"}
                   /\ Count(waiting', LocalQueues[w.queue]) = 1
            /\ (w.admission = "none" /\ w.queue \notin DOMAIN LocalQueues) =>
                   /\ last'.req = "none"
                   /\ last'.added = 0
                   /\ waiting' = waiting
                   /\ workqueue' = workqueue
            /\ Range(waiting') \subseteq Range(waiting) \cup {last'.req}]_vars

\* The event of a workload admitted to q2 whose local queue belongs to q1 asked
\* for q2.
C12_Witness ==
    /\ last.op = "WorkloadGeneric"
    /\ last.q = "w4"
    /\ last.req = "q2"
    /\ last.called = {}
    /\ "q2" \in Range(waiting)

\* C13: the channel never buffers more than 10 events; a NotifyWorkloadUpdate
\* called while 10 are buffered does not return, and returns only with a step in
\* which the source receives an event; the events whose NotifyWorkloadUpdate
\* returned are the events handed to the handler, followed by those the source
\* holds and by the buffered ones, in the order of the calls' returns; and each of
\* them is eventually handed to the handler: the calls being finitely many, from
\* some point on every event whose call returned has been handed over and no
\* caller is blocked.
C13_Backpressure ==
    /\ [](Len(wlUpdateCh) <= 10)
    /\ [](sendq # << >> => Len(wlUpdateCh) = 10)
    /\ [][(nNotify' # nNotify /\ Len(wlUpdateCh) = 10) =>
            /\ ~last'.ret
            /\ wlUpdateCh' = wlUpdateCh
            /\ pushed' = pushed
            /\ Len(sendq') = Len(sendq) + 1]_vars
    /\ [][(Len(pushed') > Len(pushed) /\ Len(wlUpdateCh) = 10) =>
            /\ sendq # << >>
            /\ pushed' = Append(pushed, Head(sendq))
            /\ held' = Append(held, Head(wlUpdateCh))]_vars
    /\ [](pushed = delivered \o held \o wlUpdateCh)
    /\ <>[](delivered = pushed /\ sendq = << >>)

\* The source received an event from the full channel, which let a blocked
\* NotifyWorkloadUpdate return: the buffer is full again, and the event received
\* was handed to the handler.
C13_Witness ==
    /\ last.op = "WorkloadGeneric"
    /\ Len(wlUpdateCh) = 10
    /\ Len(pushed) = 11
    /\ Len(delivered) = 1
    /\ held = << >>
    /\ sendq = << >>

\* The status computed from what the cache and the queue manager hold for `cq`.
ComputedStatus(cq) ==
    [UsedResources     |-> cache[cq].usage,
     AdmittedWorkloads |-> cache[cq].workloads,
     PendingWorkloads  |-> Pending(qManager, cq)]

\* The stored status of `cq` is the one computed from the cache and the queue
\* manager, whenever the store holds `cq` and the cache knows it.
Converged(cq) ==
    (cq \in DOMAIN cqObj /\ cq \in DOMAIN cache) =>
        SameStatus(cqObj[cq].status, ComputedStatus(cq))

\* C16: when every change of the cache and of the queue manager for a queue is
\* followed by a notification that asks for its Reconcile, the changes stop, the
\* queue stays stored and known to the cache and the store answers every call,
\* the stored status is eventually the computed one and stays so.
C16_Convergence == <>[](\A cq \in OneQueue : Converged(cq))

\* After the last change the stored status was written and is the computed one,
\* no event and no request left.
C16_Witness ==
    /\ nNotify = MaxNotify
    /\ last.op = "Reconcile"
    /\ last.statusWrites = 1
    /\ last.q \in DOMAIN cache
    /\ SameStatus(cqObj[last.q].status, ComputedStatus(last.q))
    /\ cqObj[last.q].status.AdmittedWorkloads > 0
    /\ wlUpdateCh = << >> /\ held = << >> /\ waiting = << >> /\ workqueue = << >>

\* C20: with no failed List and no failed client.Update over a fixed set of
\* flavors, the Create of a queue no flavor names, any Updates of its spec and
\* the Delete carrying its latest spec leave every flavor's ClusterQueues without
\* the queue's name and as it was before the Create, and the cache and the queue
\* manager without an entry for the queue: no step changes anything but the
\* queue's own name in any flavor, and once Delete has returned no flavor names
\* the queue.
C20_RoundTrip ==
    /\ [](\A cq \in OneQueue :
             (/\ cq \notin DOMAIN cqObj
              /\ cq \in DOMAIN proc => proc[cq].pc = "enqueue") =>
                 /\ \A f \in DOMAIN rf : cq \notin rf[f]
                 /\ cq \notin DOMAIN cache
                 /\ cq \notin DOMAIN qManager)
    /\ [][\A cq \in OneQueue :
             /\ DOMAIN rf' = DOMAIN rf
             /\ \A f \in DOMAIN rf : rf'[f] \ {cq} = rf[f] \ {cq}]_vars

\* The queue q1 was created, its spec changed and then it was deleted: its name
\* was removed from a flavor that q2 still names.
C20_Witness ==
    /\ last.op = "Delete"
    /\ last.q = "q1"
    /\ last.ret
    /\ last.prev.op = "Update"
    /\ last.changed # {}
    /\ "q1" \notin DOMAIN cqObj
    /\ \E f \in last.changed : rf[f] = {"q2"}
====
